---------------------------- MODULE Spec2Model ----------------------------
(***************************************************************************)
(* The wgpu render resource context (crates/bevy_wgpu/src/renderer/        *)
(* wgpu_render_resource_context.rs) as a state machine.                    *)
(*                                                                         *)
(* The context is a cloneable handle on shared state: every collection of  *)
(* WgpuResources sits behind its own RwLock.  A thread is either idle or   *)
(* inside one operation; an operation advances one lock acquisition at a   *)
(* time, and what it does once a guard is held, up to its next lock        *)
(* acquisition or its return, is one step.                                 *)
(*                                                                         *)
(* `lock.read().unwrap()` / `lock.write().unwrap()` panic on a poisoned    *)
(* lock; a panic unwinds the operation, drops its guards and poisons every *)
(* lock it held for writing.                                               *)
(***************************************************************************)
EXTENDS Naturals, FiniteSets, Sequences, TLC

\* ------------------------------------------------------------------ bounds
NumThreads == 2        \* threads sharing clones of one context
MaxResources == 2      \* RenderResource::new() calls in a run
NumDescriptors == 1    \* distinct BindGroupDescriptor ids
NumSets == 1           \* distinct RenderResourceSetIds
MaxBindGroups == 2     \* native bind groups built in a run
NumShaders == 2        \* distinct Handle<Shader>
NumPipelines == 1      \* distinct Handle<PipelineDescriptor>
NumWindows == 1        \* distinct WindowIds
MaxCompiles == 4       \* device.create_shader_module calls per shader handle
MaxSize == 1           \* the largest BufferInfo size and data length

Threads == 1..NumThreads
Resources == 1..MaxResources
DescriptorIds == 1..NumDescriptors
SetIds == 1..NumSets
ShaderHandles == 1..NumShaders
PipelineHandles == 1..NumPipelines
WindowIds == 1..NumWindows

\* Option::None for ids and handles
None == 0

\* ------------------------------------------------------------------ state
VARIABLES
    buffers,            \* resources.buffers: the handles it maps
    textures,           \* resources.textures
    texture_views,      \* resources.texture_views
    samplers,           \* resources.samplers
    resource_info,      \* resources.resource_info: handle -> variant or "none"
    next_resource,      \* handles RenderResource::new() has given out
    bind_group_layouts, \* resources.bind_group_layouts: the descriptor ids it maps
    bind_groups,        \* resources.bind_groups: <<descriptor id, set id, native object>>
    shader_modules,     \* resources.shader_modules: <<shader handle, native object>>
    render_pipelines,   \* resources.render_pipelines: <<pipeline handle, native object>>
    poisoned,           \* the RwLocks a panic has poisoned
    call,               \* per thread: the operation it is in and how far
    event,              \* the operation step that led to this state
    bind_groups_created,        \* device.create_bind_group calls, per (descriptor id, set id)
    bind_group_layouts_created, \* device.create_bind_group_layout calls, per descriptor id
    shader_modules_created,     \* device.create_shader_module calls, per shader handle
    render_pipelines_created,   \* device.create_render_pipeline calls, per pipeline handle
    mapped,             \* per thread: whether it is inside create_buffer_mapped's callback
    window_surfaces,    \* resources.window_surfaces: the window ids it maps
    window_swap_chains, \* resources.window_swap_chains: the window ids it maps
    swap_chain_outputs, \* resources.swap_chain_outputs: the handles it maps
    pipeline_descriptor, \* a PipelineDescriptor: its layout slot, whether it has a fragment stage
    reflection,         \* the last reflect_layout call on it: what it was given, how it ended
    handles_returned,   \* the handles the create calls have returned so far
    buffer_infos        \* resources.resource_info: the BufferInfo of its Buffer entries

registry == <<buffers, textures, texture_views, samplers, resource_info, next_resource,
              buffer_infos>>
caches == <<bind_group_layouts, bind_groups, shader_modules, render_pipelines>>
counters == <<bind_groups_created, bind_group_layouts_created, shader_modules_created,
              render_pipelines_created>>
collections == <<buffers, textures, texture_views, samplers, resource_info,
                 bind_group_layouts, bind_groups, shader_modules, render_pipelines>>

window == <<window_surfaces, window_swap_chains, swap_chain_outputs>>

reflector == <<pipeline_descriptor, reflection>>

vars == <<registry, caches, counters, poisoned, call, event, mapped, window, reflector,
          handles_returned>>

\* ------------------------------------------------------------------ inputs
\* BindGroupDescriptor: a stable id and an ordered list of expected bindings.
\* Descriptor d expects the d bindings named 1..d, at indices 0..d-1.
Bindings(d) == [i \in 1..d |-> i]

\* RenderResourceAssignment: Texture(resource) | Sampler(resource) | Buffer{resource, ..}
AssignmentKinds == {"Texture", "Sampler", "Buffer"}
NoAssignment == [kind |-> "none", resource |-> None]
RenderResourceAssignment == [kind : AssignmentKinds, resource : Resources]

\* What render_resource_assignments.get(name) answers for the names descriptor d
\* expects, for the assignment sets that are complete for d (every expected name
\* assigned) and for those that are not.
Assignments(d, complete) ==
    IF complete
    THEN [DOMAIN Bindings(d) -> RenderResourceAssignment]
    ELSE {a \in [DOMAIN Bindings(d) -> RenderResourceAssignment \cup {NoAssignment}] :
              \E i \in DOMAIN a : a[i] = NoAssignment}

\* BufferInfo: a size and a usage.  No info for the entries that are not buffers.
BufferUsages == {"VERTEX", "UNIFORM"}
BufferInfos == [size : 0..MaxSize, buffer_usage : BufferUsages]
NoBufferInfo == [size |-> 0, buffer_usage |-> "none"]
AnyBufferInfo == CHOOSE info \in BufferInfos : TRUE

\* PipelineLayout: its bind groups, an ordered list of bind group descriptors.
PipelineLayouts == {[i \in 1..k |-> i] : k \in 0..NumDescriptors}

\* PipelineLayoutType: Manual(layout) | Reflected(Option<layout>)
PipelineLayoutTypes ==
    [type : {"Manual"}, some : {TRUE}, bind_groups : PipelineLayouts]
    \cup [type : {"Reflected"}, some : {TRUE}, bind_groups : PipelineLayouts]
    \cup [type : {"Reflected"}, some : {FALSE}, bind_groups : {<<>>}]

\* PipelineDescriptor::get_layout: the layout, or absent for Reflected(None).
NoLayout == [some |-> FALSE, bind_groups |-> <<>>]
get_layout(layout) ==
    IF layout.type = "Reflected"
    THEN [some |-> layout.some, bind_groups |-> layout.bind_groups]
    ELSE [some |-> TRUE, bind_groups |-> layout.bind_groups]

\* PipelineDescriptor: the fields create_render_pipeline reads shared state for.
PipelineDescriptors ==
    [layout : PipelineLayoutTypes, vertex : ShaderHandles,
     fragment : ShaderHandles \cup {None}]
NoDescriptor ==
    [layout |-> [type |-> "Reflected", some |-> FALSE, bind_groups |-> <<>>],
     vertex |-> None, fragment |-> None]

\* ------------------------------------------------------------------ locks
\* The RwLock guards each of these operations takes, in the order the source
\* takes them.  They hold every guard until they return.
Plan(op) ==
    CASE op = "create_texture_with_data" ->
             <<<<"resource_info", "W">>, <<"texture_views", "W">>, <<"textures", "W">>>>
      [] op = "create_sampler" ->
             <<<<"samplers", "W">>, <<"resource_info", "W">>>>
      [] op = "create_texture" ->
             <<<<"textures", "W">>, <<"texture_views", "W">>, <<"resource_info", "W">>>>
      [] op = "create_buffer" ->
             <<<<"resource_info", "W">>, <<"buffers", "W">>>>
      [] op = "create_buffer_mapped" ->
             <<<<"resource_info", "W">>, <<"buffers", "W">>>>
      [] op = "create_buffer_with_data" ->
             <<<<"resource_info", "W">>, <<"buffers", "W">>>>
      [] op = "get_resource_info" ->
             <<<<"resource_info", "R">>>>
      [] op = "set_window_surface" ->
             <<<<"window_surfaces", "W">>>>
      [] op = "create_swap_chain" ->
             <<<<"window_surfaces", "R">>, <<"window_swap_chains", "W">>>>
      [] op = "next_swap_chain_texture" ->
             <<<<"window_swap_chains", "W">>, <<"swap_chain_outputs", "W">>>>
      [] op = "drop_swap_chain_texture" ->
             <<<<"swap_chain_outputs", "W">>>>
      [] op = "drop_all_swap_chain_textures" ->
             <<<<"swap_chain_outputs", "W">>>>
      [] op = "remove_buffer" ->
             <<<<"buffers", "W">>, <<"resource_info", "W">>>>
      [] op = "remove_texture" ->
             <<<<"textures", "W">>, <<"texture_views", "W">>, <<"resource_info", "W">>>>
      [] op = "remove_sampler" ->
             <<<<"samplers", "W">>, <<"resource_info", "W">>>>
      [] op = "create_bind_group" ->
             <<<<"texture_views", "R">>, <<"samplers", "R">>, <<"buffers", "R">>,
               <<"bind_group_layouts", "R">>, <<"bind_groups", "W">>>>
      [] op = "create_bind_group_layout" ->
             <<<<"bind_group_layouts", "W">>>>
      [] OTHER -> <<>>

\* A thread's call: the operation, the guards taken so far (n) or the place in
\* create_render_pipeline (pc, i), and the arguments.  `complete` is whether the
\* assignment set passed to create_bind_group assigns every expected binding; it is
\* read when the call returns.  `resolves` is whether the shader storage passed to
\* create_shader_module finds the handle and, for create_bind_group, whether the
\* collections map every handle the assignment set gives the expected bindings.
\* `info` and `data` are the BufferInfo and the data length passed to the buffer
\* calls; for get_resource_info, `info` is the BufferInfo handed to the callback.
Idle == [op |-> "idle", n |-> 0, pc |-> "", i |-> 0,
         d |-> None, s |-> None, h |-> None, complete |-> TRUE,
         p |-> None, desc |-> NoDescriptor, resolves |-> TRUE,
         info |-> NoBufferInfo, data |-> 0]

\* The guards create_render_pipeline holds at each place: bind_group_layouts from
\* the collect of the layouts on, shader_modules from the build on.
PipelineHeld(pc) ==
    CASE pc \in {"vertex", "vertex_write", "fragment", "fragment_write", "build"} ->
             {<<"bind_group_layouts", "R">>}
      [] pc = "store" ->
             {<<"bind_group_layouts", "R">>, <<"shader_modules", "R">>}
      [] OTHER -> {}

\* The guards a call holds.
HeldBy(c) ==
    IF c.op = "create_render_pipeline"
    THEN PipelineHeld(c.pc)
    ELSE {Plan(c.op)[i] : i \in 1..c.n}

\* The guards create_buffer_mapped holds while its callback runs: none, the
\* callback is called before the first guard is taken.
\* (Variant: the guards taken before the callback, as create_buffer takes them.)
MappedHeldEarly == {<<"resource_info", "W">>, <<"buffers", "W">>}
MappedHeld == {}
OuterHeld(t) == IF mapped[t].active THEN MappedHeld ELSE {}
Held(t) == HeldBy(call[t]) \cup OuterHeld(t)

\* RwLock: a write guard excludes every other guard, a read guard excludes writers;
\* a thread's own guards exclude it like any other's.
Compatible(g, lock) == g[1] = lock[1] => (lock[2] = "R" /\ g[2] = "R")
Free(t, lock) ==
    /\ \A u \in Threads \ {t} : \A g \in Held(u) : Compatible(g, lock)
    /\ \A g \in OuterHeld(t) : Compatible(g, lock)

NextLock(c) == Plan(c.op)[c.n + 1]
LastLock(c) == c.n + 1 = Len(Plan(c.op))
Acquired(c) == [c EXCEPT !.n = c.n + 1]

\* ------------------------------------------------------------------ events
\* The last step, when it ended an operation: the operation, its arguments, how it
\* returned ("panic" when it did not) and the path it took.
NoEvent == [op |-> "none", ret |-> "none", obs |-> "none",
            d |-> None, s |-> None, h |-> None, complete |-> TRUE,
            p |-> None, layout |-> FALSE, resolves |-> TRUE,
            info |-> NoBufferInfo, data |-> 0]

Returned(c, ret, obs) ==
    [op |-> c.op, ret |-> ret, obs |-> obs,
     d |-> c.d, s |-> c.s, h |-> c.h, complete |-> c.complete,
     p |-> c.p, layout |-> get_layout(c.desc.layout).some, resolves |-> c.resolves,
     info |-> c.info, data |-> c.data]

\* A panic inside an operation: the stack unwinds, every guard is dropped, and the
\* locks held for writing are poisoned.  Nothing else changes.
Panic(t, c, obs) ==
    /\ poisoned' = poisoned \cup {g[1] : g \in {x \in HeldBy(c) : x[2] = "W"}}
    /\ call' = [call EXCEPT ![t] = Idle]
    /\ event' = Returned(c, "panic", obs)
    /\ UNCHANGED <<registry, caches, counters, mapped, window, reflector, handles_returned>>

\* The operation goes on, now as call record c.
Continue(t, c) ==
    /\ call' = [call EXCEPT ![t] = c]
    /\ event' = NoEvent
    /\ UNCHANGED <<poisoned, mapped, window, reflector, handles_returned>>

\* The operations that return a new handle.
CreateOps == {"create_texture_with_data", "create_sampler", "create_texture",
              "create_buffer", "create_buffer_mapped", "create_buffer_with_data",
              "next_swap_chain_texture"}

\* Normal return of the operation.
Returning(t, c, ret, obs) ==
    /\ call' = [call EXCEPT ![t] = Idle]
    /\ event' = Returned(c, ret, obs)
    /\ handles_returned' = IF c.op \in CreateOps
                           THEN handles_returned \cup {c.h} ELSE handles_returned
    /\ UNCHANGED <<poisoned, mapped, reflector>>
Return(t, c, ret, obs) ==
    /\ Returning(t, c, ret, obs)
    /\ UNCHANGED window

\* `lock.read().unwrap()` / `lock.write().unwrap()`: the thread waits until the
\* lock is free, panics if it is poisoned, and goes on with `body` otherwise.
Take(t, c, lock, body) ==
    /\ Free(t, lock)
    /\ IF lock[1] \in poisoned THEN Panic(t, c, "poisoned") ELSE body

\* The next guard of a planned operation; `body` once the guard is the plan's last.
Advance(t, c, body) ==
    Take(t, c, NextLock(c),
         IF LastLock(c)
         THEN body
         ELSE Continue(t, Acquired(c)) /\ UNCHANGED <<registry, caches, counters>>)

\* The calls in flight that will allocate a handle / build a bind group.
Creating == {u \in Threads : call[u].op \in
               {"create_texture_with_data", "create_sampler", "create_texture",
                "create_buffer", "create_buffer_with_data", "next_swap_chain_texture"}}
Building == {u \in Threads : call[u].op = "create_bind_group"}

\* RenderResource::new(): a handle never given out before.
\* (Variant: a handle given out before is given out again once nothing maps it.)
ReusedRenderResource ==
    LET unmapped == {r \in 1..next_resource :
                        /\ r \notin buffers \cup textures \cup texture_views \cup samplers
                        /\ r \notin swap_chain_outputs
                        /\ resource_info[r] = "none"
                        /\ \A u \in Threads : call[u].h # r}
    IN  IF unmapped = {} THEN next_resource + 1 ELSE CHOOSE r \in unmapped : TRUE
NewRenderResource == next_resource + 1

\* ------------------------------------------------------------------ reflection
\* The bindings shaders declare, by name, and their BindType: a uniform buffer,
\* which has a `dynamic` flag, and a sampled texture.
BindingNames == {"Transform", "Albedo"}
TypeOf(name) == IF name = "Transform" THEN "Uniform" ELSE "SampledTexture"

\* What shaders.get(handle) answers: a shader, by the bindings it declares, or
\* nothing.
ShaderSources == {[some |-> TRUE, bindings |-> names] : names \in SUBSET BindingNames}
NoShader == [some |-> FALSE, bindings |-> {}]

\* render_resource_assignments.get(name): nothing, a texture, a sampler, a buffer
\* with dynamic_index None, a buffer with dynamic_index Some(_).
\* The optional render_resource_assignments argument.
NamedAssignments ==
    {[some |-> TRUE, get |-> g] :
        g \in [BindingNames -> {"none", "Texture", "Sampler", "Buffer", "DynamicBuffer"}]}
NoAssignments == [some |-> FALSE, get |-> [n \in BindingNames |-> "none"]]

\* Shader::reflect_layout: the bindings of one stage, none dynamic.
ShaderLayout(source, bevy_conventions) ==
    [bindings |-> {[name |-> n, type |-> TypeOf(n), dynamic |-> FALSE] : n \in source.bindings},
     vertex_buffers |-> "reflected",
     conventions |-> bevy_conventions]

\* PipelineLayout::from_shader_layouts: the stages' bindings, united.
from_shader_layouts(layouts) ==
    [bindings |-> UNION {layouts[i].bindings : i \in DOMAIN layouts},
     vertex_buffers |-> "reflected",
     conventions |-> layouts[1].conventions]

\* layout.sync_vertex_buffer_descriptors(vertex_buffer_descriptors)
sync_vertex_buffer_descriptors(layout) == [layout EXCEPT !.vertex_buffers = "synced"]

\* The promotion loop: a binding whose name is assigned a buffer with a
\* dynamic_index, and whose type is BindType::Uniform, gets dynamic = true.
\* (Variant: the promotion of every such binding, whatever its type.)
PromoteAnyType(layout, assignments) ==
    [layout EXCEPT !.bindings =
        {[b EXCEPT !.dynamic = b.dynamic \/ assignments.get[b.name] = "DynamicBuffer"]
            : b \in layout.bindings}]
PromoteDynamic(layout, assignments) ==
    [layout EXCEPT !.bindings =
        {[b EXCEPT !.dynamic =
             b.dynamic \/ (assignments.get[b.name] = "DynamicBuffer" /\ b.type = "Uniform")]
            : b \in layout.bindings}]

\* The layout slot: Reflected(None), Reflected(Some(layout)), Manual(layout).
Reflected(layout) == [type |-> "Reflected", some |-> TRUE, bind_groups |-> layout]
Manual(layout) == [type |-> "Manual", some |-> TRUE, bind_groups |-> layout]
Unreflected == [type |-> "Reflected", some |-> FALSE, bind_groups |-> <<>>]

\* PipelineDescriptor::new: Reflected(None).
NewDescriptor(fragment) == [layout |-> Unreflected, fragment |-> fragment]

\* What a reflect_layout call was given: the shaders the storage resolved the
\* stages to, the flags, the names assigned dynamic buffers; the slot it found
\* (`manual`, `promoted`: whether it held a dynamic binding) and how it ended.
NoReflection ==
    [ret |-> "none", vertex |-> NoShader, fragment |-> NoShader,
     bevy_conventions |-> FALSE, overrides |-> FALSE, assigned |-> FALSE,
     dynamic |-> {}, manual |-> FALSE, promoted |-> FALSE]

\* A thread outside create_buffer_mapped's callback; `since` is the last handle
\* given out when the thread's last callback began.
NotMapped == [active |-> FALSE, since |-> 0, info |-> NoBufferInfo]
Mapping == {u \in Threads : mapped[u].active}

\* ------------------------------------------------------------------ Init
\* WgpuRenderResourceContext::new: WgpuResources::default(), every collection empty.
Init ==
    /\ buffers = {}
    /\ textures = {}
    /\ texture_views = {}
    /\ samplers = {}
    /\ resource_info = [r \in Resources |-> "none"]
    /\ next_resource = 0
    /\ buffer_infos = [r \in Resources |-> NoBufferInfo]
    /\ bind_group_layouts = {}
    /\ bind_groups = {}
    /\ shader_modules = {}
    /\ render_pipelines = {}
    /\ poisoned = {}
    /\ call = [t \in Threads |-> Idle]
    /\ event = NoEvent
    /\ bind_groups_created = [k \in DescriptorIds \X SetIds |-> 0]
    /\ bind_group_layouts_created = [d \in DescriptorIds |-> 0]
    /\ shader_modules_created = [h \in ShaderHandles |-> 0]
    /\ render_pipelines_created = [p \in PipelineHandles |-> 0]
    /\ mapped = [t \in Threads |-> NotMapped]
    /\ window_surfaces = {}
    /\ window_swap_chains = {}
    /\ swap_chain_outputs = {}
    /\ pipeline_descriptor = NewDescriptor(FALSE)
    /\ reflection = NoReflection
    /\ handles_returned = {}

\* The call record of thread t entering or continuing operation op.
Entering(t, op, h, d) ==
    IF call[t].op = "idle" THEN [Idle EXCEPT !.op = op, !.h = h, !.d = d] ELSE call[t]

InOp(t, op, h, d) ==
    \/ call[t].op = "idle"
    \/ call[t].op = op /\ call[t].h = h /\ call[t].d = d

\* A create call starts only while the run's handle budget lasts.
MayCreate(t) ==
    call[t].op = "idle" =>
        next_resource + Cardinality(Creating) + Cardinality(Mapping) < MaxResources

\* ------------------------------------------------------------------ resources
create_sampler(t) ==
    LET c == Entering(t, "create_sampler", None, None)
        r == NewRenderResource
    IN  /\ InOp(t, "create_sampler", None, None)
        /\ MayCreate(t)
        /\ Advance(t, c,
              /\ samplers' = samplers \cup {r}
              /\ resource_info' = [resource_info EXCEPT ![r] = "Sampler"]
              /\ next_resource' = r
              /\ Return(t, [c EXCEPT !.h = r], "Some", "created")
              /\ UNCHANGED <<buffers, textures, texture_views, buffer_infos, caches, counters>>)

create_texture(t) ==
    LET c == Entering(t, "create_texture", None, None)
        r == NewRenderResource
    IN  /\ InOp(t, "create_texture", None, None)
        /\ MayCreate(t)
        /\ Advance(t, c,
              /\ resource_info' = [resource_info EXCEPT ![r] = "Texture"]
              /\ texture_views' = texture_views \cup {r}
              /\ textures' = textures \cup {r}
              /\ next_resource' = r
              /\ Return(t, [c EXCEPT !.h = r], "Some", "created")
              /\ UNCHANGED <<buffers, samplers, buffer_infos, caches, counters>>)

create_texture_with_data(t) ==
    LET c == Entering(t, "create_texture_with_data", None, None)
        r == NewRenderResource
    IN  /\ InOp(t, "create_texture_with_data", None, None)
        /\ MayCreate(t)
        /\ Advance(t, c,
              /\ resource_info' = [resource_info EXCEPT ![r] = "Texture"]
              /\ texture_views' = texture_views \cup {r}
              /\ textures' = textures \cup {r}
              /\ next_resource' = r
              /\ Return(t, [c EXCEPT !.h = r], "Some", "created")
              /\ UNCHANGED <<buffers, samplers, buffer_infos, caches, counters>>)

create_buffer(t, buffer_info) ==
    LET c == Entering(t, "create_buffer", None, None)
        r == NewRenderResource
    IN  /\ InOp(t, "create_buffer", None, None)
        /\ MayCreate(t)
        /\ Advance(t, c,
              /\ resource_info' = [resource_info EXCEPT ![r] = "Buffer"]
              /\ buffer_infos' = [buffer_infos EXCEPT ![r] = buffer_info]
              /\ buffers' = buffers \cup {r}
              /\ next_resource' = r
              /\ Return(t, [c EXCEPT !.h = r, !.info = buffer_info], "Some", "created")
              /\ UNCHANGED <<textures, texture_views, samplers, caches, counters>>)

\* `buffer_info.size = data.len()`; `data` is the length of the data.
\* (Variant: the info recorded as it was passed.)
SizedAsPassed(buffer_info, data) == buffer_info
SizedFromData(buffer_info, data) == [buffer_info EXCEPT !.size = data]

\* create_buffer_with_data: as create_buffer, the info's size set from the data.
create_buffer_with_data(t, buffer_info, data) ==
    LET c == Entering(t, "create_buffer_with_data", None, None)
        r == NewRenderResource
    IN  /\ InOp(t, "create_buffer_with_data", None, None)
        /\ MayCreate(t)
        /\ Advance(t, c,
              /\ resource_info' = [resource_info EXCEPT ![r] = "Buffer"]
              /\ buffer_infos' = [buffer_infos EXCEPT
                                     ![r] = SizedFromData(buffer_info, data)]
              /\ buffers' = buffers \cup {r}
              /\ next_resource' = r
              /\ Return(t, [c EXCEPT !.h = r, !.info = buffer_info, !.data = data],
                        "Some", "created")
              /\ UNCHANGED <<textures, texture_views, samplers, caches, counters>>)

\* create_buffer_mapped, up to the call of setup_data: the mapped buffer is made
\* and the callback begins, with the context as its argument.  While the callback
\* runs the thread makes further calls on the context.
create_buffer_mapped(t, buffer_info) ==
    /\ call[t].op = "idle"
    /\ ~mapped[t].active
    /\ MayCreate(t)
    /\ \A g \in MappedHeld : Free(t, g) /\ g[1] \notin poisoned
    /\ mapped' = [mapped EXCEPT ![t] = [active |-> TRUE, since |-> next_resource,
                                        info |-> buffer_info]]
    /\ event' = NoEvent
    /\ UNCHANGED <<registry, caches, counters, poisoned, call, window, reflector,
                   handles_returned>>

\* The callback returns: mapped.finish() and RenderResource::new().
create_buffer_mapped_finish(t) ==
    LET r == NewRenderResource
    IN  /\ call[t].op = "idle"
        /\ mapped[t].active
        /\ mapped' = [mapped EXCEPT ![t].active = FALSE]
        /\ next_resource' = r
        /\ call' = [call EXCEPT ![t] = [Idle EXCEPT !.op = "create_buffer_mapped", !.h = r,
                                                    !.info = mapped[t].info]]
        /\ event' = NoEvent
        /\ UNCHANGED <<buffers, textures, texture_views, samplers, resource_info,
                       buffer_infos, caches, counters, poisoned, window, reflector,
                       handles_returned>>

\* The two write guards, then the inserts under the handle made before them.
create_buffer_mapped_insert(t) ==
    LET c == call[t]
    IN  /\ c.op = "create_buffer_mapped"
        /\ Advance(t, c,
              /\ resource_info' = [resource_info EXCEPT ![c.h] = "Buffer"]
              /\ buffer_infos' = [buffer_infos EXCEPT ![c.h] = c.info]
              /\ buffers' = buffers \cup {c.h}
              /\ Return(t, c, "Some", "created")
              /\ UNCHANGED <<textures, texture_views, samplers, next_resource,
                             caches, counters>>)

\* get_resource_info: the read guard on resource_info, then handle_info(info),
\* called once with what the map answers for the handle.
get_resource_info(t, resource) ==
    LET c == [Idle EXCEPT !.op = "get_resource_info", !.h = resource]
    IN  /\ call[t].op = "idle"
        /\ Advance(t, c,
              /\ Return(t, [c EXCEPT !.info = buffer_infos[resource]], "unit",
                        resource_info[resource])
              /\ UNCHANGED <<registry, caches, counters>>)

\* (Variant: a remove that leaves the info.)
remove_buffer_keeps_info(t, resource) ==
    LET c == Entering(t, "remove_buffer", resource, None)
    IN  /\ InOp(t, "remove_buffer", resource, None)
        /\ Advance(t, c,
              /\ buffers' = buffers \ {resource}
              /\ Return(t, c, "unit", "removed")
              /\ UNCHANGED <<textures, texture_views, samplers, resource_info,
                             buffer_infos, next_resource, caches, counters>>)
remove_buffer(t, resource) ==
    LET c == Entering(t, "remove_buffer", resource, None)
    IN  /\ InOp(t, "remove_buffer", resource, None)
        /\ Advance(t, c,
              /\ buffers' = buffers \ {resource}
              /\ resource_info' = [resource_info EXCEPT ![resource] = "none"]
              /\ buffer_infos' = [buffer_infos EXCEPT ![resource] = NoBufferInfo]
              /\ Return(t, c, "unit", "removed")
              /\ UNCHANGED <<textures, texture_views, samplers, next_resource,
                             caches, counters>>)

\* (Variant: a remove that also drops the bind groups built so far.)
remove_texture_evicts(t, resource) ==
    LET c == Entering(t, "remove_texture", resource, None)
    IN  /\ InOp(t, "remove_texture", resource, None)
        /\ Advance(t, c,
              /\ textures' = textures \ {resource}
              /\ texture_views' = texture_views \ {resource}
              /\ resource_info' = [resource_info EXCEPT ![resource] = "none"]
              /\ buffer_infos' = [buffer_infos EXCEPT ![resource] = NoBufferInfo]
              /\ bind_groups' = {}
              /\ Return(t, c, "unit", "removed")
              /\ UNCHANGED <<buffers, samplers, next_resource, bind_group_layouts,
                             shader_modules, render_pipelines, counters>>)
remove_texture(t, resource) ==
    LET c == Entering(t, "remove_texture", resource, None)
    IN  /\ InOp(t, "remove_texture", resource, None)
        /\ Advance(t, c,
              /\ textures' = textures \ {resource}
              /\ texture_views' = texture_views \ {resource}
              /\ resource_info' = [resource_info EXCEPT ![resource] = "none"]
              /\ buffer_infos' = [buffer_infos EXCEPT ![resource] = NoBufferInfo]
              /\ Return(t, c, "unit", "removed")
              /\ UNCHANGED <<buffers, samplers, next_resource, caches, counters>>)

remove_sampler(t, resource) ==
    LET c == Entering(t, "remove_sampler", resource, None)
    IN  /\ InOp(t, "remove_sampler", resource, None)
        /\ Advance(t, c,
              /\ samplers' = samplers \ {resource}
              /\ resource_info' = [resource_info EXCEPT ![resource] = "none"]
              /\ buffer_infos' = [buffer_infos EXCEPT ![resource] = NoBufferInfo]
              /\ Return(t, c, "unit", "removed")
              /\ UNCHANGED <<buffers, textures, texture_views, next_resource,
                             caches, counters>>)

\* ------------------------------------------------------------------ swap chains
set_window_surface(t, window_id) ==
    LET c == [Idle EXCEPT !.op = "set_window_surface", !.h = window_id]
    IN  /\ call[t].op = "idle"
        /\ Advance(t, c,
              /\ window_surfaces' = window_surfaces \cup {window_id}
              /\ Returning(t, c, "unit", "set")
              /\ UNCHANGED <<registry, caches, counters, window_swap_chains,
                             swap_chain_outputs>>)

\* create_swap_chain: `.expect("No surface found for window")`, then the insert.
create_swap_chain(t, window_id) ==
    LET c == Entering(t, "create_swap_chain", window_id, None)
    IN  /\ InOp(t, "create_swap_chain", window_id, None)
        /\ Advance(t, c,
              IF window_id \notin window_surfaces
              THEN Panic(t, Acquired(c), "no_surface")
              ELSE /\ window_swap_chains' = window_swap_chains \cup {window_id}
                   /\ Returning(t, c, "unit", "created")
                   /\ UNCHANGED <<registry, caches, counters, window_surfaces,
                                  swap_chain_outputs>>)

\* swap_chain_outputs.clear()
\* (Variant: a clear that leaves an entry when there are several.)
ClearButOne(outputs) ==
    IF Cardinality(outputs) > 1 THEN {CHOOSE r \in outputs : TRUE} ELSE {}
Clear(outputs) == {}

\* next_swap_chain_texture: `window_swap_chains.get_mut(&window_id).unwrap()`,
\* `get_next_texture().unwrap()` (`acquired` is whether the swap chain gives a
\* texture), then a new handle inserted into swap_chain_outputs; no ResourceInfo.
next_swap_chain_texture(t, window_id, acquired) ==
    LET c == Entering(t, "next_swap_chain_texture", window_id, None)
        r == NewRenderResource
    IN  /\ InOp(t, "next_swap_chain_texture", window_id, None)
        /\ MayCreate(t)
        /\ Advance(t, c,
              IF window_id \notin window_swap_chains
              THEN Panic(t, Acquired(c), "no_swap_chain")
              ELSE IF ~acquired
              THEN Panic(t, Acquired(c), "no_texture")
              ELSE /\ swap_chain_outputs' = swap_chain_outputs \cup {r}
                   /\ next_resource' = r
                   /\ Returning(t, [c EXCEPT !.h = r], "Some", "created")
                   /\ UNCHANGED <<buffers, textures, texture_views, samplers,
                                  resource_info, buffer_infos, caches, counters,
                                  window_surfaces,
                                  window_swap_chains>>)

drop_swap_chain_texture(t, render_resource) ==
    LET c == [Idle EXCEPT !.op = "drop_swap_chain_texture", !.h = render_resource]
    IN  /\ call[t].op = "idle"
        /\ Advance(t, c,
              /\ swap_chain_outputs' = swap_chain_outputs \ {render_resource}
              /\ Returning(t, c, "unit", "removed")
              /\ UNCHANGED <<registry, caches, counters, window_surfaces,
                             window_swap_chains>>)

drop_all_swap_chain_textures(t) ==
    LET c == [Idle EXCEPT !.op = "drop_all_swap_chain_textures"]
    IN  /\ call[t].op = "idle"
        /\ Advance(t, c,
              /\ swap_chain_outputs' = Clear(swap_chain_outputs)
              /\ Returning(t, c, "unit", "removed")
              /\ UNCHANGED <<registry, caches, counters, window_surfaces,
                             window_swap_chains>>)

\* ------------------------------------------------------------------ bind group layouts
\* The existence check, under a read guard dropped at once.
HasBindGroupLayout(d) == d \in bind_group_layouts

\* device.create_bind_group_layout and the insert, under the write guard; the
\* check is not repeated.
InsertBindGroupLayout(d) ==
    /\ bind_group_layouts' = bind_group_layouts \cup {d}
    /\ bind_group_layouts_created' = [bind_group_layouts_created EXCEPT ![d] = @ + 1]
    /\ UNCHANGED <<registry, bind_groups, shader_modules, render_pipelines,
                   bind_groups_created, shader_modules_created, render_pipelines_created>>

\* (Variant: the call without the existence check.)
create_bind_group_layout_unchecked(t, d) ==
    LET c == Entering(t, "create_bind_group_layout", None, d)
    IN  /\ InOp(t, "create_bind_group_layout", None, d)
        /\ IF call[t].op = "idle"
           THEN Take(t, c, <<"bind_group_layouts", "R">>,
                   /\ Continue(t, c)
                   /\ UNCHANGED <<registry, caches, counters>>)
           ELSE Advance(t, c,
                   /\ InsertBindGroupLayout(d)
                   /\ Return(t, c, "unit", "created"))
create_bind_group_layout(t, d) ==
    LET c == Entering(t, "create_bind_group_layout", None, d)
    IN  /\ InOp(t, "create_bind_group_layout", None, d)
        /\ IF call[t].op = "idle"
           THEN Take(t, c, <<"bind_group_layouts", "R">>,
                   /\ IF HasBindGroupLayout(d)
                      THEN Return(t, c, "unit", "hit")
                      ELSE Continue(t, c)
                   /\ UNCHANGED <<registry, caches, counters>>)
           ELSE Advance(t, c,
                   /\ InsertBindGroupLayout(d)
                   /\ Return(t, c, "unit", "created"))

\* ------------------------------------------------------------------ bind groups
\* WgpuResources::has_bind_group
HasBindGroup(d, s) == \E g \in bind_groups : g[1] = d /\ g[2] = s

\* bind_groups.entry(id).or_insert_with(default).bind_groups.insert(set id, object):
\* a HashMap insert replaces the value the key had.
\* (Variant: an insert that keeps the value the key had.)
InsertBeside(groups, d, s, object) == groups \cup {<<d, s, object>>}
Insert(groups, d, s, object) ==
    {g \in groups : ~(g[1] = d /\ g[2] = s)} \cup {<<d, s, object>>}

\* `collection.get(&resource).unwrap()` of one assignment succeeds.
Resolves(a) ==
    CASE a.kind = "Texture" -> a.resource \in texture_views
      [] a.kind = "Sampler" -> a.resource \in samplers
      [] a.kind = "Buffer"  -> a.resource \in buffers
      [] OTHER -> FALSE

\* The bindings are mapped in order; the first one that cannot be built panics:
\* a name with no assignment, or an assigned handle its collection does not map.
\* (Variant: unassigned names skipped.  Variant: unknown handles skipped.)
AllResolve(assignment) ==
    \A i \in DOMAIN assignment : assignment[i] # NoAssignment => Resolves(assignment[i])
FirstFailureSkipsUnknown(assignment) ==
    LET bad == {i \in DOMAIN assignment : assignment[i] = NoAssignment}
    IN  IF bad = {} THEN None ELSE CHOOSE i \in bad : \A j \in bad : i <= j
FirstFailureSkipsUnassigned(assignment) ==
    LET bad == {i \in DOMAIN assignment :
                   assignment[i] # NoAssignment /\ ~Resolves(assignment[i])}
    IN  IF bad = {} THEN None ELSE CHOOSE i \in bad : \A j \in bad : i <= j
FirstFailure(assignment) ==
    LET bad == {i \in DOMAIN assignment :
                   assignment[i] = NoAssignment \/ ~Resolves(assignment[i])}
    IN  IF bad = {} THEN None ELSE CHOOSE i \in bad : \A j \in bad : i <= j

\* A miss starts a build only while the run's bind-group budget lasts.
MayBuild ==
    LET built == {x \in (DescriptorIds \X SetIds) \X (1..MaxBindGroups) :
                     x[2] <= bind_groups_created[x[1]]}
    IN  Cardinality(built) + Cardinality(Building) < MaxBindGroups

\* The call: get_render_resource_set, then has_bind_group.  A call that finds
\* the bind group returns at the end of the function, with None.
\* (Variant: the call without the has_bind_group test.)
create_bind_group_unchecked(t, d, render_resource_set, complete) ==
    LET c == [Idle EXCEPT !.op = "create_bind_group", !.d = d, !.s = render_resource_set]
        r == [c EXCEPT !.complete = complete]
    IN  /\ call[t].op = "idle"
        /\ UNCHANGED <<registry, caches, counters>>
        /\ IF render_resource_set = None
           THEN Return(t, r, "None", "not_ready")
           ELSE Take(t, r, <<"bind_groups", "R">>, MayBuild /\ Continue(t, c))
\* (Variant: the call unwrapping the resolved set.)
create_bind_group_unwraps(t, d, render_resource_set, complete) ==
    LET c == [Idle EXCEPT !.op = "create_bind_group", !.d = d, !.s = render_resource_set]
        r == [c EXCEPT !.complete = complete]
    IN  /\ call[t].op = "idle"
        /\ UNCHANGED <<registry, caches, counters>>
        /\ IF render_resource_set = None
           THEN Panic(t, r, "not_ready")
           ELSE Take(t, r, <<"bind_groups", "R">>,
                   IF HasBindGroup(d, render_resource_set)
                   THEN Return(t, r, "None", "hit")
                   ELSE MayBuild /\ Continue(t, c))
create_bind_group(t, d, render_resource_set, complete) ==
    LET c == [Idle EXCEPT !.op = "create_bind_group", !.d = d, !.s = render_resource_set]
        r == [c EXCEPT !.complete = complete]
    IN  /\ call[t].op = "idle"
        /\ UNCHANGED <<registry, caches, counters>>
        /\ IF render_resource_set = None
           THEN Return(t, r, "None", "not_ready")
           ELSE Take(t, r, <<"bind_groups", "R">>,
                   IF HasBindGroup(d, render_resource_set)
                   THEN Return(t, r, "None", "hit")
                   ELSE MayBuild /\ Continue(t, c))

\* device.create_bind_group and the insert under (descriptor id, set id); the
\* existence check is not repeated under the write guard.
\* (Variant: a build that repeats the check under the write guard.)
BuildBindGroupRechecked(t, c) ==
    LET key == <<c.d, c.s>>
        found == HasBindGroup(c.d, c.s)
    IN  /\ bind_groups_created' = [bind_groups_created EXCEPT
                                      ![key] = IF found THEN @ ELSE @ + 1]
        /\ bind_groups' = IF found THEN bind_groups
                          ELSE Insert(bind_groups, c.d, c.s, bind_groups_created[key] + 1)
        /\ Return(t, c, "Some", "created")
        /\ UNCHANGED <<registry, bind_group_layouts, shader_modules, render_pipelines,
                       bind_group_layouts_created, shader_modules_created,
                       render_pipelines_created>>
BuildBindGroup(t, c) ==
    LET key == <<c.d, c.s>>
    IN  /\ bind_groups_created' = [bind_groups_created EXCEPT ![key] = @ + 1]
        /\ bind_groups' = Insert(bind_groups, c.d, c.s, bind_groups_created[key] + 1)
        /\ Return(t, c, "Some", "created")
        /\ UNCHANGED <<registry, bind_group_layouts, shader_modules, render_pipelines,
                       bind_group_layouts_created, shader_modules_created,
                       render_pipelines_created>>

\* After a miss: the five guards, then the bindings, the layout, the build.
create_bind_group_build(t, complete) ==
    LET c == call[t]
        r == [c EXCEPT !.complete = complete]
    IN  /\ c.op = "create_bind_group"
        /\ IF ~LastLock(c)
           THEN Advance(t, c, FALSE)
           ELSE Take(t, r, NextLock(c),
                   \E assignment \in Assignments(c.d, complete) :
                      LET failure == FirstFailure(assignment)
                          b == [Acquired(r) EXCEPT !.resolves = AllResolve(assignment)]
                      IN  IF failure # None
                          THEN Panic(t, b,
                                     IF assignment[failure] = NoAssignment
                                     THEN "missing_binding" ELSE "unknown_handle")
                          ELSE IF ~HasBindGroupLayout(c.d)
                          THEN Panic(t, b, "no_layout")
                          ELSE BuildBindGroup(t, b))

\* ------------------------------------------------------------------ pipelines
HasRenderPipeline(p) == \E x \in render_pipelines : x[1] = p
HasShaderModule(h) == \E x \in shader_modules : x[1] = h

\* shader_modules.insert(handle, module): a HashMap insert.
\* (Variant: the module is compiled and not stored.)
DropShaderModule(modules, h, object) == modules
InsertShaderModule(modules, h, object) ==
    {x \in modules : x[1] # h} \cup {<<h, object>>}

\* create_shader_module_from_source under its write guard: compile, then insert.
CompileShaderModule(h) ==
    LET serial == shader_modules_created[h] + 1
    IN  /\ shader_modules_created' = [shader_modules_created EXCEPT ![h] = serial]
        /\ shader_modules' = InsertShaderModule(shader_modules, h, serial)
        /\ UNCHANGED <<registry, bind_group_layouts, bind_groups, render_pipelines,
                       bind_groups_created, bind_group_layouts_created,
                       render_pipelines_created>>

\* From-source calls are made only while the run's compile budget lasts.
MayCompile(h) == shader_modules_created[h] < MaxCompiles

create_shader_module_from_source(t, h) ==
    LET c == [Idle EXCEPT !.op = "create_shader_module_from_source", !.h = h]
    IN  /\ call[t].op = "idle"
        /\ MayCompile(h)
        /\ Take(t, c, <<"shader_modules", "W">>,
              /\ CompileShaderModule(h)
              /\ Return(t, c, "unit", "created"))

\* create_shader_module: the existence check under a read guard dropped at once,
\* then `shader_storage.get(&shader_handle).unwrap()`; `resolves` is whether the
\* storage finds the shader.
\* (Variant: the call without the existence check.)
create_shader_module_unchecked(t, h, resolves) ==
    LET c == [Idle EXCEPT !.op = "create_shader_module", !.h = h]
    IN  /\ call[t].op = "idle"
        /\ MayCompile(h)
        /\ UNCHANGED <<registry, caches, counters>>
        /\ Take(t, c, <<"shader_modules", "R">>,
              IF ~resolves
              THEN Panic(t, c, "unknown_shader")
              ELSE Continue(t, c))
create_shader_module(t, h, resolves) ==
    LET c == [Idle EXCEPT !.op = "create_shader_module", !.h = h]
        r == [c EXCEPT !.resolves = resolves]
    IN  /\ call[t].op = "idle"
        /\ UNCHANGED <<registry, caches, counters>>
        /\ Take(t, r, <<"shader_modules", "R">>,
              IF HasShaderModule(h)
              THEN Return(t, r, "unit", "hit")
              ELSE IF ~resolves
              THEN Panic(t, r, "unknown_shader")
              ELSE Continue(t, c))

\* After a miss: create_shader_module_from_source, with no second check.
create_shader_module_compile(t) ==
    LET c == call[t]
    IN  /\ c.op = "create_shader_module"
        /\ Take(t, c, <<"shader_modules", "W">>,
              /\ CompileShaderModule(c.h)
              /\ Return(t, c, "unit", "created"))

\* render_pipelines.insert(handle, pipeline): a HashMap insert.
InsertPipeline(pipelines, p, object) ==
    {x \in pipelines : x[1] # p} \cup {<<p, object>>}

\* `pipeline_descriptor.get_layout().unwrap()`
\* (Variant: an absent layout taken as an empty one.)
LayoutUnwrapsAlways(desc) == TRUE
LayoutUnwraps(desc) == get_layout(desc.layout).some

\* The call: the existence check on the handle, then the layout.
\* (Variant: the call without the existence check.)
create_render_pipeline_unchecked(t, p, desc) ==
    LET c == [Idle EXCEPT !.op = "create_render_pipeline", !.p = p, !.desc = desc]
        first == IF Len(desc.layout.bind_groups) = 0 THEN "collect" ELSE "layouts"
    IN  /\ call[t].op = "idle"
        /\ UNCHANGED <<registry, caches, counters>>
        /\ Take(t, c, <<"render_pipelines", "R">>,
              IF ~LayoutUnwraps(desc)
              THEN Panic(t, c, "no_layout")
              ELSE Continue(t, [c EXCEPT !.pc = first, !.i = 1]))
create_render_pipeline(t, p, desc) ==
    LET c == [Idle EXCEPT !.op = "create_render_pipeline", !.p = p, !.desc = desc]
        first == IF Len(desc.layout.bind_groups) = 0 THEN "collect" ELSE "layouts"
    IN  /\ call[t].op = "idle"
        /\ UNCHANGED <<registry, caches, counters>>
        /\ Take(t, c, <<"render_pipelines", "R">>,
              IF HasRenderPipeline(p)
              THEN Return(t, c, "unit", "hit")
              ELSE IF ~LayoutUnwraps(desc)
              THEN Panic(t, c, "no_layout")
              ELSE Continue(t, [c EXCEPT !.pc = first, !.i = 1]))

\* create_bind_group_layout for each bind group of the layout, then the read guard
\* on bind_group_layouts under which the layouts are collected.
create_render_pipeline_layouts(t) ==
    LET c == call[t]
        groups == c.desc.layout.bind_groups
        d == groups[c.i]
        next == IF c.i < Len(groups)
                THEN [c EXCEPT !.pc = "layouts", !.i = c.i + 1]
                ELSE [c EXCEPT !.pc = "collect", !.i = 0]
    IN  /\ c.op = "create_render_pipeline"
        /\ c.pc \in {"layouts", "layout_write", "collect"}
        /\ CASE c.pc = "layouts" ->
                  Take(t, c, <<"bind_group_layouts", "R">>,
                     /\ Continue(t, IF HasBindGroupLayout(d)
                                    THEN next ELSE [c EXCEPT !.pc = "layout_write"])
                     /\ UNCHANGED <<registry, caches, counters>>)
             [] c.pc = "layout_write" ->
                  Take(t, c, <<"bind_group_layouts", "W">>,
                     /\ InsertBindGroupLayout(d)
                     /\ Continue(t, next))
             [] c.pc = "collect" ->
                  Take(t, c, <<"bind_group_layouts", "R">>,
                     /\ UNCHANGED <<registry, caches, counters>>
                     /\ IF \A i \in DOMAIN groups : HasBindGroupLayout(groups[i])
                        THEN Continue(t, [c EXCEPT !.pc = "vertex"])
                        ELSE Panic(t, c, "unknown_layout"))

\* create_shader_module for the vertex stage and, when there is one, the fragment
\* stage.  `resolves` is whether shader_storage.get(handle) finds the shader.
create_render_pipeline_shaders(t, resolves) ==
    LET c == call[t]
        vertex == c.pc \in {"vertex", "vertex_write"}
        h == IF vertex THEN c.desc.vertex ELSE c.desc.fragment
        next == IF vertex /\ c.desc.fragment # None
                THEN [c EXCEPT !.pc = "fragment"]
                ELSE [c EXCEPT !.pc = "build"]
        write == [c EXCEPT !.pc = IF vertex THEN "vertex_write" ELSE "fragment_write"]
    IN  /\ c.op = "create_render_pipeline"
        /\ c.pc \in {"vertex", "vertex_write", "fragment", "fragment_write"}
        /\ IF c.pc \in {"vertex", "fragment"}
           THEN Take(t, c, <<"shader_modules", "R">>,
                   /\ UNCHANGED <<registry, caches, counters>>
                   /\ IF HasShaderModule(h)
                      THEN Continue(t, next)
                      ELSE IF resolves
                      THEN Continue(t, write)
                      ELSE Panic(t, c, "unknown_shader"))
           ELSE Take(t, c, <<"shader_modules", "W">>,
                   /\ CompileShaderModule(h)
                   /\ Continue(t, next))

\* The read guard on shader_modules and device.create_render_pipeline; then the
\* write guard on render_pipelines and the insert under the handle.
create_render_pipeline_build(t) ==
    LET c == call[t]
        serial == render_pipelines_created[c.p] + 1
        object == [layout |-> get_layout(c.desc.layout), serial |-> c.n]
    IN  /\ c.op = "create_render_pipeline"
        /\ c.pc \in {"build", "store"}
        /\ IF c.pc = "build"
           THEN Take(t, c, <<"shader_modules", "R">>,
                   /\ render_pipelines_created' =
                         [render_pipelines_created EXCEPT ![c.p] = serial]
                   /\ Continue(t, [c EXCEPT !.pc = "store", !.n = serial])
                   /\ UNCHANGED <<registry, caches, bind_groups_created,
                                  bind_group_layouts_created, shader_modules_created>>)
           ELSE Take(t, c, <<"render_pipelines", "W">>,
                   /\ render_pipelines' = InsertPipeline(render_pipelines, c.p, object)
                   /\ Return(t, c, "unit", "created")
                   /\ UNCHANGED <<registry, bind_group_layouts, bind_groups,
                                  shader_modules, counters>>)

\* ------------------------------------------------------------------ specifications
\* The first thread, for the runs with a single caller.
Caller == CHOOSE t \in Threads : \A u \in Threads : t <= u

\* The descriptor the racing callers share.
Shared == CHOOSE d \in DescriptorIds : \A e \in DescriptorIds : d <= e

\* Bind groups: resources made and removed, layouts and bind groups requested.
BindGroupOps(t) ==
    \/ create_texture(t)
    \/ create_sampler(t)
    \/ create_buffer(t, AnyBufferInfo)
    \/ \E r \in Resources : remove_texture(t, r)
    \/ \E r \in Resources : remove_sampler(t, r)
    \/ \E r \in Resources : remove_buffer(t, r)
    \/ \E d \in DescriptorIds : create_bind_group_layout(t, d)
    \/ \E d \in DescriptorIds, s \in SetIds \cup {None}, complete \in BOOLEAN :
          create_bind_group(t, d, s, complete)
    \/ \E complete \in BOOLEAN : create_bind_group_build(t, complete)

\* One caller.
Next == BindGroupOps(Caller)
Spec == Init /\ [][Next]_vars

\* Every thread requests bind groups for one descriptor.
RaceOps(t) ==
    \/ create_texture(t)
    \/ create_bind_group_layout(t, Shared)
    \/ \E s \in SetIds \cup {None}, complete \in BOOLEAN :
          create_bind_group(t, Shared, s, complete)
    \/ \E complete \in BOOLEAN : create_bind_group_build(t, complete)

NextRace == \E t \in Threads : RaceOps(t)
SpecRace == Init /\ [][NextRace]_vars

\* Every thread makes and removes resources.
RegistryOps(t) ==
    \/ create_texture(t)
    \/ create_texture_with_data(t)
    \/ create_sampler(t)
    \/ create_buffer(t, AnyBufferInfo)
    \/ \E r \in Resources : remove_texture(t, r)
    \/ \E r \in Resources : remove_sampler(t, r)
    \/ \E r \in Resources : remove_buffer(t, r)

NextRegistry == \E t \in Threads : RegistryOps(t)
SpecRegistry == Init /\ [][NextRegistry]_vars

\* Every thread makes resources of every kind, and removes buffers, textures and
\* samplers with the remove call of their kind.
LivenessOps(t) ==
    \/ create_texture(t)
    \/ create_texture_with_data(t)
    \/ create_sampler(t)
    \/ create_buffer(t, AnyBufferInfo)
    \/ create_buffer_with_data(t, AnyBufferInfo, 0)
    \/ create_buffer_mapped(t, AnyBufferInfo)
    \/ create_buffer_mapped_finish(t)
    \/ create_buffer_mapped_insert(t)
    \/ \E r \in Resources : resource_info[r] \in {"Texture", "none"} /\ remove_texture(t, r)
    \/ \E r \in Resources : resource_info[r] \in {"Sampler", "none"} /\ remove_sampler(t, r)
    \/ \E r \in Resources : resource_info[r] \in {"Buffer", "none"} /\ remove_buffer(t, r)

NextLiveness == \E t \in Threads : LivenessOps(t)
SpecLiveness == Init /\ [][NextLiveness]_vars

\* One caller makes and removes resources and looks their info up.
InfoOps(t) ==
    \/ create_texture(t)
    \/ create_sampler(t)
    \/ create_buffer(t, AnyBufferInfo)
    \/ \E r \in Resources : remove_texture(t, r)
    \/ \E r \in Resources : remove_sampler(t, r)
    \/ \E r \in Resources : remove_buffer(t, r)
    \/ \E r \in Resources : get_resource_info(t, r)

NextInfo == InfoOps(Caller)
SpecInfo == Init /\ [][NextInfo]_vars

\* One caller fills mapped buffers, makes resources and looks their info up,
\* inside the fill callback or outside it.
MappedOps(t) ==
    \/ create_buffer_mapped(t, AnyBufferInfo)
    \/ create_buffer_mapped_finish(t)
    \/ create_buffer_mapped_insert(t)
    \/ create_buffer(t, AnyBufferInfo)
    \/ create_texture(t)
    \/ create_sampler(t)
    \/ \E r \in Resources : get_resource_info(t, r)

NextMapped == MappedOps(Caller)
SpecMapped == Init /\ [][NextMapped]_vars

\* One caller presents: surfaces, swap chains, the textures acquired from them
\* and dropped, beside textures of its own.
SwapChainOps(t) ==
    \/ create_texture(t)
    \/ \E w \in WindowIds : set_window_surface(t, w)
    \/ \E w \in WindowIds : create_swap_chain(t, w)
    \/ \E w \in WindowIds, acquired \in BOOLEAN : next_swap_chain_texture(t, w, acquired)
    \/ \E r \in Resources : drop_swap_chain_texture(t, r)
    \/ drop_all_swap_chain_textures(t)

NextSwapChain == SwapChainOps(Caller)
SpecSwapChain == Init /\ [][NextSwapChain]_vars

\* ------------------------------------------------------------------ reflect_layout
\* PipelineDescriptor::new(shader_stages)
new_descriptor(fragment) ==
    /\ pipeline_descriptor' = NewDescriptor(fragment)
    /\ reflection' = NoReflection
    /\ UNCHANGED <<registry, caches, counters, poisoned, call, event, mapped, window,
                   handles_returned>>

\* A descriptor made in Manual mode: its layout is PipelineLayoutType::Manual(L).
manual_layout(source) ==
    /\ pipeline_descriptor' =
          [pipeline_descriptor EXCEPT
              !.layout = Manual(from_shader_layouts(<<ShaderLayout(source, FALSE)>>))]
    /\ reflection' = NoReflection
    /\ UNCHANGED <<registry, caches, counters, poisoned, call, event, mapped, window,
                   handles_returned>>

\* shaders.get(..).unwrap(), for the vertex stage and for the fragment stage
\* the descriptor has.  (Variant: only the fragment stage is unwrapped.)
UnresolvedFragment(vertex, fragment) ==
    pipeline_descriptor.fragment /\ ~fragment.some
Unresolved(vertex, fragment) ==
    ~vertex.some \/ (pipeline_descriptor.fragment /\ ~fragment.some)

\* reflect_layout.  `vertex` and `fragment` are what shaders.get answers for the
\* stage handles, `overrides` whether vertex_buffer_descriptors is Some,
\* `assignments` the render_resource_assignments or none.
\* (Variant: a reflect_layout that keeps a layout already reflected.)
reflect_layout_memoized(vertex, fragment, bevy_conventions, overrides, assignments) ==
    LET found == pipeline_descriptor.layout
        given == [ret |-> "unit", vertex |-> vertex,
                  fragment |-> IF pipeline_descriptor.fragment THEN fragment ELSE NoShader,
                  bevy_conventions |-> bevy_conventions, overrides |-> overrides,
                  assigned |-> assignments.some,
                  dynamic |-> {n \in BindingNames : assignments.get[n] = "DynamicBuffer"},
                  manual |-> found.type = "Manual",
                  promoted |-> found.some /\ \E b \in found.bind_groups.bindings : b.dynamic]
        stages == IF pipeline_descriptor.fragment
                  THEN <<ShaderLayout(vertex, bevy_conventions),
                         ShaderLayout(fragment, bevy_conventions)>>
                  ELSE <<ShaderLayout(vertex, bevy_conventions)>>
        merged == from_shader_layouts(stages)
        synced == IF overrides THEN sync_vertex_buffer_descriptors(merged) ELSE merged
        layout == IF assignments.some THEN PromoteDynamic(synced, assignments) ELSE synced
    IN  /\ UNCHANGED <<registry, caches, counters, poisoned, call, event, mapped, window,
                   handles_returned>>
        /\ IF Unresolved(vertex, fragment)
           THEN /\ reflection' = [given EXCEPT !.ret = "panic"]
                /\ UNCHANGED pipeline_descriptor
           ELSE /\ reflection' = given
                /\ pipeline_descriptor' =
                      [pipeline_descriptor EXCEPT
                          !.layout = IF found.type = "Reflected" /\ found.some
                                     THEN found ELSE Reflected(layout)]
reflect_layout(vertex, fragment, bevy_conventions, overrides, assignments) ==
    LET found == pipeline_descriptor.layout
        given == [ret |-> "unit", vertex |-> vertex,
                  fragment |-> IF pipeline_descriptor.fragment THEN fragment ELSE NoShader,
                  bevy_conventions |-> bevy_conventions, overrides |-> overrides,
                  assigned |-> assignments.some,
                  dynamic |-> {n \in BindingNames : assignments.get[n] = "DynamicBuffer"},
                  manual |-> found.type = "Manual",
                  promoted |-> found.some /\ \E b \in found.bind_groups.bindings : b.dynamic]
        stages == IF pipeline_descriptor.fragment
                  THEN <<ShaderLayout(vertex, bevy_conventions),
                         ShaderLayout(fragment, bevy_conventions)>>
                  ELSE <<ShaderLayout(vertex, bevy_conventions)>>
        merged == from_shader_layouts(stages)
        synced == IF overrides THEN sync_vertex_buffer_descriptors(merged) ELSE merged
        layout == IF assignments.some THEN PromoteDynamic(synced, assignments) ELSE synced
    IN  /\ UNCHANGED <<registry, caches, counters, poisoned, call, event, mapped, window,
                   handles_returned>>
        /\ IF Unresolved(vertex, fragment)
           THEN /\ reflection' = [given EXCEPT !.ret = "panic"]
                /\ UNCHANGED pipeline_descriptor
           ELSE /\ reflection' = given
                /\ pipeline_descriptor' =
                      [pipeline_descriptor EXCEPT !.layout = Reflected(layout)]

\* A descriptor is made, in either mode, and reflected again and again.
ReflectOps ==
    \/ \E fragment \in BOOLEAN : new_descriptor(fragment)
    \/ \E source \in ShaderSources : manual_layout(source)
    \/ \E vertex \in ShaderSources \cup {NoShader},
          fragment \in (IF pipeline_descriptor.fragment
                        THEN ShaderSources \cup {NoShader} ELSE {NoShader}),
          bevy_conventions \in BOOLEAN, overrides \in BOOLEAN,
          assignments \in NamedAssignments \cup {NoAssignments} :
          reflect_layout(vertex, fragment, bevy_conventions, overrides, assignments)

NextReflect == ReflectOps
SpecReflect == Init /\ [][NextReflect]_vars

\* Pipelines.
PipelineOps(t) ==
    \/ \E d \in DescriptorIds : create_bind_group_layout(t, d)
    \/ \E p \in PipelineHandles, desc \in PipelineDescriptors :
          create_render_pipeline(t, p, desc)
    \/ create_render_pipeline_layouts(t)
    \/ \E resolves \in BOOLEAN : create_render_pipeline_shaders(t, resolves)
    \/ create_render_pipeline_build(t)

NextPipeline == PipelineOps(Caller)
SpecPipeline == Init /\ [][NextPipeline]_vars

\* Every thread requests the pipeline of one descriptor, under any handle.
SharedDescriptor ==
    [layout |-> [type |-> "Reflected", some |-> TRUE,
                 bind_groups |-> [i \in DescriptorIds |-> i]],
     vertex |-> CHOOSE h \in ShaderHandles : \A g \in ShaderHandles : h <= g,
     fragment |-> CHOOSE h \in ShaderHandles : \A g \in ShaderHandles : h >= g]

PipelineRaceOps(t) ==
    \/ \E p \in PipelineHandles : create_render_pipeline(t, p, SharedDescriptor)
    \/ create_render_pipeline_layouts(t)
    \/ \E resolves \in BOOLEAN : create_render_pipeline_shaders(t, resolves)
    \/ create_render_pipeline_build(t)

NextPipelineRace == \E t \in Threads : PipelineRaceOps(t)
SpecPipelineRace == Init /\ [][NextPipelineRace]_vars

\* One caller fills the caches and removes the resources they were filled from.
CacheOps(t) ==
    \/ create_texture(t)
    \/ \E r \in Resources : remove_texture(t, r)
    \/ \E r \in Resources : remove_sampler(t, r)
    \/ \E r \in Resources : remove_buffer(t, r)
    \/ \E d \in DescriptorIds, s \in SetIds \cup {None}, complete \in BOOLEAN :
          create_bind_group(t, d, s, complete)
    \/ \E complete \in BOOLEAN : create_bind_group_build(t, complete)
    \/ \E p \in PipelineHandles : create_render_pipeline(t, p, SharedDescriptor)
    \/ create_render_pipeline_layouts(t)
    \/ \E resolves \in BOOLEAN : create_render_pipeline_shaders(t, resolves)
    \/ create_render_pipeline_build(t)

NextCaches == CacheOps(Caller)
SpecCaches == Init /\ [][NextCaches]_vars

\* One caller makes resources with every create call and removes the live ones
\* with the call of their kind, while every thread fills mapped buffers.
FreshOps(t) ==
    \/ create_texture(t)
    \/ create_texture_with_data(t)
    \/ create_sampler(t)
    \/ create_buffer(t, AnyBufferInfo)
    \/ create_buffer_with_data(t, AnyBufferInfo, 0)
    \/ \E w \in WindowIds : set_window_surface(t, w)
    \/ \E w \in window_surfaces : create_swap_chain(t, w)
    \/ \E w \in window_swap_chains : next_swap_chain_texture(t, w, TRUE)
    \/ \E r \in swap_chain_outputs : drop_swap_chain_texture(t, r)
    \/ \E r \in textures : remove_texture(t, r)
    \/ \E r \in samplers : remove_sampler(t, r)
    \/ \E r \in buffers : remove_buffer(t, r)

FillOps(t) ==
    \/ create_buffer_mapped(t, AnyBufferInfo)
    \/ create_buffer_mapped_finish(t)
    \/ create_buffer_mapped_insert(t)

NextFresh == FreshOps(Caller) \/ \E t \in Threads : FillOps(t)
SpecFresh == Init /\ [][NextFresh]_vars

\* One caller makes buffers of every size and usage, from data of every length,
\* removes them and looks their info up.
BufferInfoOps(t) ==
    \/ \E info \in BufferInfos : create_buffer(t, info)
    \/ \E info \in BufferInfos, data \in 0..MaxSize : create_buffer_with_data(t, info, data)
    \/ \E info \in BufferInfos : create_buffer_mapped(t, info)
    \/ create_buffer_mapped_finish(t)
    \/ create_buffer_mapped_insert(t)
    \/ \E r \in Resources : remove_buffer(t, r)
    \/ \E r \in Resources : get_resource_info(t, r)

NextBufferInfo == BufferInfoOps(Caller)
SpecBufferInfo == Init /\ [][NextBufferInfo]_vars

\* Shader modules, one caller.
ShaderOps(t) ==
    \/ \E h \in ShaderHandles, resolves \in BOOLEAN : create_shader_module(t, h, resolves)
    \/ create_shader_module_compile(t)
    \/ \E h \in ShaderHandles : create_shader_module_from_source(t, h)

NextShader == ShaderOps(Caller)
SpecShader == Init /\ [][NextShader]_vars

\* ------------------------------------------------------------------ properties
BindGroupKeys == DescriptorIds \X SetIds
Cached(d, s) == {g \in bind_groups : g[1] = d /\ g[2] = s}

\* A step in which the single caller calls create_bind_group from rest and the
\* call returns in the same step (it did not go on to take the guards).
BindGroupCallReturns ==
    /\ call[Caller].op = "idle"
    /\ call'[Caller].op = "idle"
    /\ event'.op = "create_bind_group"

\* A step in which a thread that saw a miss finishes create_bind_group.
BindGroupBuildEnds(t) ==
    /\ call[t].op = "create_bind_group"
    /\ call'[t].op = "idle"
    /\ event'.op = "create_bind_group"

\* C1: with a single caller, a (descriptor, set) pair is built natively at most
\* once, and a create_bind_group call made while the pair is cached creates
\* nothing and leaves the bind-group cache as it was.
C1_SecondCallCreatesNothing ==
    /\ [](\A k \in BindGroupKeys : bind_groups_created[k] <= 1)
    /\ [][(BindGroupCallReturns /\ event'.s # None /\ HasBindGroup(event'.d, event'.s))
            => UNCHANGED <<bind_groups, bind_groups_created>>]_vars

\* C1 witness: a second call has returned for a pair that was built once.
C1_SecondCallMade ==
    /\ event.op = "create_bind_group"
    /\ event.obs = "hit"
    /\ bind_groups_created[<<event.d, event.s>>] = 1
    /\ Cardinality(Cached(event.d, event.s)) = 1

\* C2 as stated: a create_bind_group call that finds the pair cached returns the
\* set identity.
C2_HitReturnsIdentity ==
    (event.op = "create_bind_group" /\ event.obs = "hit") => event.ret = "Some"

\* C3: a create_bind_group call whose assignments resolve no set for the
\* descriptor returns None without failing, and changes no collection, creates
\* nothing natively and poisons no lock.
C3_NotReadyReturnsNothing ==
    [][(BindGroupCallReturns /\ event'.s = None)
         => /\ event'.ret = "None"
            /\ UNCHANGED <<registry, caches, counters, poisoned>>]_vars

\* C3 witness: such a call has returned, made with assignments that also lack
\* a binding, after a bind group of the same descriptor was built.
C3_NotReadyCallMade ==
    /\ event.op = "create_bind_group"
    /\ event.s = None
    /\ event.ret = "None"
    /\ ~event.complete
    /\ \E s \in SetIds : HasBindGroup(event.d, s)

\* C4 as stated: every create_bind_group call whose assignments lack an expected
\* binding fails fatally.
C4_MissingBindingAlwaysFatal ==
    (event.op = "create_bind_group" /\ ~event.complete) => event.ret = "panic"

\* C4 amended: a create_bind_group call that resolved a set, found no bind group
\* cached for it and whose assignments lack an expected binding panics (at the
\* missing binding, or before it at a binding whose handle is unknown), never
\* returns normally and adds no bind group.
C4_MissingBindingFatalOnBuild ==
    [][(BindGroupBuildEnds(Caller) /\ ~event'.complete)
         => /\ event'.ret = "panic"
            /\ event'.obs \in {"missing_binding", "unknown_handle"}
            /\ UNCHANGED <<bind_groups, bind_groups_created>>]_vars

\* C4 witness: a build has panicked at a missing binding with the layout present.
C4_MissingBindingPanicked ==
    /\ event.op = "create_bind_group"
    /\ ~event.complete
    /\ event.ret = "panic"
    /\ event.obs = "missing_binding"
    /\ HasBindGroupLayout(event.d)

\* A step in which the single caller calls create_render_pipeline from rest and
\* the call returns in the same step.
PipelineCallReturns ==
    /\ call[Caller].op = "idle"
    /\ call'[Caller].op = "idle"
    /\ event'.op = "create_render_pipeline"

\* C5: with a single caller, a pipeline handle is built natively at most once,
\* and a create_render_pipeline call made while the handle is stored returns
\* normally, builds nothing and changes no collection.
C5_SecondCallIsNoOp ==
    /\ [](\A p \in PipelineHandles : render_pipelines_created[p] <= 1)
    /\ [][(PipelineCallReturns /\ HasRenderPipeline(event'.p))
            => /\ event'.ret = "unit"
               /\ UNCHANGED <<registry, caches, counters, poisoned>>]_vars

\* C5 witness: a second call has returned for a handle that was built once.
C5_SecondCallMade ==
    /\ event.op = "create_render_pipeline"
    /\ event.obs = "hit"
    /\ render_pipelines_created[event.p] = 1
    /\ HasRenderPipeline(event.p)

\* The lock a thread inside a resource operation is about to take, and whether
\* another thread's guards keep it from taking it.
Blocked(t) ==
    /\ call[t].n < Len(Plan(call[t].op))
    /\ ~Free(t, NextLock(call[t]))

\* C6 as stated: no set of threads ever waits on one another's locks for ever;
\* some thread inside an operation can always take its next lock.
C6_NoDeadlock ==
    (\E t \in Threads : call[t].op # "idle") => (\E t \in Threads : call[t].op # "idle" /\ ~Blocked(t))

\* C7: a thread that saw a miss builds natively when it gets the write guard,
\* also when another thread has stored a bind group for the pair since; so no
\* pair is built more often than there are threads, and no less often than the
\* threads that saw the miss.
C7_MissAlwaysBuilds ==
    [][\A t \in Threads :
         (BindGroupBuildEnds(t) /\ event'.ret = "Some")
           => bind_groups_created'[<<event'.d, event'.s>>]
                 = bind_groups_created[<<event'.d, event'.s>>] + 1]_vars

\* C7 witness: two threads saw the miss for one pair and both built it.
C7_BothThreadsBuilt ==
    \E k \in BindGroupKeys :
       /\ bind_groups_created[k] = 2
       /\ \A t \in Threads : call[t].op = "idle"

\* C8 as stated: a pipeline handle is built natively at most once, however the
\* calls interleave.
C8_PipelineBuiltOnce ==
    \A p \in PipelineHandles : render_pipelines_created[p] <= 1

\* C9: the bind-group cache holds at most one bind group per (descriptor, set)
\* pair.
C9_OneBindGroupPerKey ==
    \A k \in BindGroupKeys : Cardinality(Cached(k[1], k[2])) <= 1

\* C9 witness: a pair built twice by racing threads is cached once, as the
\* bind group built last.
C9_RaceLeavesOne ==
    \E k \in BindGroupKeys :
       /\ bind_groups_created[k] > 1
       /\ Cached(k[1], k[2]) = {<<k[1], k[2], bind_groups_created[k]>>}

\* C10: a create_render_pipeline call for a handle not stored, made with a
\* descriptor whose layout is absent, panics and changes no collection; and
\* every stored pipeline was built from a layout that was present.
C10_LayoutRequired ==
    /\ [](\A x \in render_pipelines : x[2].layout.some)
    /\ [][(PipelineCallReturns /\ ~event'.layout /\ ~HasRenderPipeline(event'.p))
            => /\ event'.ret = "panic"
               /\ UNCHANGED <<registry, caches, counters>>]_vars

\* C10 witness: a call for a handle not stored, made with an absent layout, has
\* panicked.
C10_AbsentLayoutPanicked ==
    /\ event.op = "create_render_pipeline"
    /\ ~event.layout
    /\ event.ret = "panic"
    /\ event.obs = "no_layout"
    /\ ~HasRenderPipeline(event.p)

\* A step in which the single caller makes a call that returns in the same step.
CallReturns(op) ==
    /\ call[Caller].op = "idle"
    /\ call'[Caller].op = "idle"
    /\ event'.op = op
StoredIn(modules, h) == {x[2] : x \in {y \in modules : y[1] = h}}
StoredModule(h) == StoredIn(shader_modules, h)

\* C11: with a single caller, a create_shader_module call for a handle with no
\* stored module and a shader the storage resolves compiles once and stores that
\* module; a call for a handle with a stored module compiles nothing and leaves
\* the stored module as it is, whether or not the storage still resolves the
\* handle; create_shader_module_from_source always compiles and replaces the
\* stored module.  The stored module is always the one compiled last.
C11_ShaderModuleMemoized ==
    /\ [](\A h \in ShaderHandles :
            StoredModule(h) = IF shader_modules_created[h] = 0 THEN {}
                              ELSE {shader_modules_created[h]})
    /\ [][/\ (CallReturns("create_shader_module") /\ HasShaderModule(event'.h))
               => /\ event'.ret = "unit"
                  /\ UNCHANGED <<registry, caches, counters, poisoned>>
          /\ (call[Caller].op = "create_shader_module" /\ call'[Caller].op = "idle")
               => /\ event'.ret = "unit"
                  /\ shader_modules_created'[event'.h] = shader_modules_created[event'.h] + 1
                  /\ shader_modules_created[event'.h] = 0
          /\ (CallReturns("create_shader_module_from_source") /\ event'.ret = "unit")
               => /\ shader_modules_created'[event'.h] = shader_modules_created[event'.h] + 1
                  /\ StoredIn(shader_modules', event'.h) # StoredModule(event'.h)
                  /\ Cardinality(StoredIn(shader_modules', event'.h)) = 1]_vars

\* C11 witness: a create_shader_module call has found the module that a
\* from-source call stored in place of the first one.
C11_HitAfterReplace ==
    /\ event.op = "create_shader_module"
    /\ event.obs = "hit"
    /\ ~event.resolves
    /\ shader_modules_created[event.h] = 2

\* C12: with a single caller, over any sequence of create_bind_group_layout and
\* create_render_pipeline calls, the native layout of a descriptor id is built
\* at most once; a create_bind_group_layout call, or a create_render_pipeline
\* layout step, that finds the layout stored builds nothing and leaves the
\* stored layouts as they are.
C12_LayoutBuiltOnce ==
    /\ [](\A d \in DescriptorIds : bind_group_layouts_created[d] <= 1)
    /\ [][/\ (CallReturns("create_bind_group_layout")
                 /\ HasBindGroupLayout(event'.d))
               => /\ event'.ret = "unit"
                  /\ UNCHANGED <<registry, caches, counters, poisoned>>
          /\ (/\ call[Caller].op = "create_render_pipeline"
              /\ call[Caller].pc = "layouts"
              /\ HasBindGroupLayout(call[Caller].desc.layout.bind_groups[call[Caller].i]))
               => UNCHANGED <<registry, caches, counters, poisoned>>]_vars

\* C12 witness: a create_bind_group_layout call has found the layout that a
\* create_render_pipeline call built.
C12_HitAfterPipeline ==
    /\ event.op = "create_bind_group_layout"
    /\ event.obs = "hit"
    /\ bind_group_layouts_created[event.d] = 1
    /\ render_pipelines # {}

\* The collection that maps a handle, as a ResourceInfo variant.
KindOf(r) ==
    IF r \in buffers THEN "Buffer"
    ELSE IF r \in textures THEN "Texture"
    ELSE IF r \in samplers THEN "Sampler"
    ELSE "none"

\* C17: in every state, with threads inside create and remove calls or not, and
\* removes made with the call of the handle's kind, a handle has a ResourceInfo
\* entry exactly when buffers, textures or samplers maps it, of the variant of
\* that collection; a handle is in one collection at most, and textures and
\* texture_views map the same handles.
C17_InfoTracksLiveness ==
    /\ \A r \in Resources : resource_info[r] = KindOf(r)
    /\ buffers \cap textures = {} /\ buffers \cap samplers = {} /\ textures \cap samplers = {}
    /\ textures = texture_views

\* C17 witness: a buffer is live, another handle was made and removed, and a
\* thread is inside an operation holding a guard.
C17_LiveAndRemoved ==
    /\ \E r \in buffers : resource_info[r] = "Buffer"
    /\ \E q \in 1..next_resource : resource_info[q] = "none" /\ KindOf(q) = "none"
    /\ \E t \in Threads : Held(t) # {}

\* C18 as stated: get_resource_info returns normally, having called the callback
\* with the recorded info of the handle's kind when the handle is a live buffer,
\* texture or sampler, and with absent otherwise.
C18_InfoOfLiveResource ==
    event.op = "get_resource_info" => (event.ret = "unit" /\ event.obs = KindOf(event.h))

\* C20: while the fill callback of create_buffer_mapped runs, the call holds no
\* guard; when the call returns, its handle is new, buffers maps it and its info
\* is a buffer's, and every handle given out while the callback ran is still
\* mapped with the info of its own kind.
C20_CallbackHoldsNoGuard ==
    /\ [](\A t \in Threads : mapped[t].active => OuterHeld(t) = {})
    /\ [][(call[Caller].op = "create_buffer_mapped" /\ call'[Caller].op = "idle")
            => /\ event'.ret = "Some"
               /\ KindOf(event'.h) = "none"
               /\ event'.h \in buffers'
               /\ resource_info'[event'.h] = "Buffer"
               /\ \A r \in (mapped[Caller].since + 1)..(event'.h - 1) :
                     /\ r # event'.h
                     /\ KindOf(r) # "none"
                     /\ resource_info'[r] = KindOf(r)]_vars

\* C20 witness: create_buffer_mapped has returned after its callback made a
\* resource, and both are registered.
C20_InnerAndOuterRegistered ==
    /\ event.op = "create_buffer_mapped"
    /\ event.ret = "Some"
    /\ mapped[Caller].since + 1 < event.h
    /\ event.h \in buffers
    /\ KindOf(event.h - 1) \in {"Buffer", "Texture", "Sampler"}

\* C19: a next_swap_chain_texture call that returns adds exactly one handle to
\* swap_chain_outputs, a handle that was not in it, so calls with no drop between
\* them accumulate one handle each; drop_swap_chain_texture(h) removes h and
\* nothing else; drop_all_swap_chain_textures leaves swap_chain_outputs empty
\* whatever it held; none of the three changes buffers, textures, texture
\* views, samplers or resource_info, and swap_chain_outputs never maps a handle
\* another collection maps.
C19_SwapChainTurnover ==
    /\ [](\A r \in swap_chain_outputs : r \in 1..next_resource /\ KindOf(r) = "none")
    /\ [][/\ (call[Caller].op = "next_swap_chain_texture" /\ call'[Caller].op = "idle"
                 /\ event'.ret = "Some")
               => /\ event'.h \notin swap_chain_outputs
                  /\ swap_chain_outputs' = swap_chain_outputs \cup {event'.h}
                  /\ UNCHANGED <<buffers, textures, texture_views, samplers, resource_info>>
          /\ (CallReturns("drop_swap_chain_texture") /\ event'.ret = "unit")
               => /\ swap_chain_outputs' = swap_chain_outputs \ {event'.h}
                  /\ UNCHANGED registry
          /\ (CallReturns("drop_all_swap_chain_textures") /\ event'.ret = "unit")
               => /\ swap_chain_outputs' = {}
                  /\ UNCHANGED registry]_vars

\* C19 witness: as many textures as the run allows were acquired with none
\* dropped, and all are in swap_chain_outputs.
C19_AllAcquiredHeld ==
    /\ event.op = "next_swap_chain_texture"
    /\ event.ret = "Some"
    /\ Cardinality(swap_chain_outputs) = MaxResources
    /\ swap_chain_outputs = 1..next_resource


\* ------------------------------------------------------------------ reflection claims
\* The bindings of the layout in the descriptor's slot.
SlotBindings == pipeline_descriptor.layout.bind_groups.bindings
Reflects == reflection.ret = "unit"

\* C13 (as amended): after reflect_layout is called with a resource-assignment
\* set, a binding of the resulting layout has dynamic = true exactly if it is a
\* uniform buffer whose name maps in that set to a buffer assignment with
\* dynamic_index set; every other binding keeps dynamic = false.
C13_UniformPromoted ==
    (Reflects /\ reflection.assigned) =>
        \A b \in SlotBindings :
            b.dynamic = (b.type = "Uniform" /\ b.name \in reflection.dynamic)

\* C13 witness: a reflection with assignments promoted one binding and left
\* another one alone.
C13_OnePromotedOneNot ==
    /\ Reflects /\ reflection.assigned
    /\ \E b \in SlotBindings : b.dynamic
    /\ \E b \in SlotBindings : ~b.dynamic

\* C13 as stated: every binding whose name maps to a buffer assignment with
\* dynamic_index set reports dynamic = true, whatever its type.
C13_EveryBindingPromoted ==
    (Reflects /\ reflection.assigned) =>
        \A b \in SlotBindings : b.dynamic = (b.name \in reflection.dynamic)

\* C14 as stated: reflect_layout on a descriptor in Manual mode with layout L
\* leaves it in Manual mode with L.
C14_ManualKept ==
    [][(pipeline_descriptor.layout.type = "Manual" /\ reflection'.ret = "unit")
          => pipeline_descriptor'.layout = pipeline_descriptor.layout]_vars

\* The layout one reflect_layout on a fresh descriptor makes of what the last
\* call was given.
LayoutOfLastCall ==
    [bindings |->
        {[name |-> n, type |-> TypeOf(n),
          dynamic |-> TypeOf(n) = "Uniform" /\ n \in reflection.dynamic]
            : n \in reflection.vertex.bindings \cup reflection.fragment.bindings},
     vertex_buffers |-> IF reflection.overrides THEN "synced" ELSE "reflected",
     conventions |-> reflection.bevy_conventions]

\* C15: after any sequence of reflect_layout calls the stored layout is the one
\* the last call's arguments alone determine; nothing of an earlier reflection,
\* promoted dynamic flags included, carries over.
C15_RecomputedFromScratch ==
    Reflects => pipeline_descriptor.layout = Reflected(LayoutOfLastCall)

\* C15 witness: a descriptor whose layout had a promoted binding was reflected
\* again, and the binding is no longer dynamic.
C15_PromotionForgotten ==
    /\ Reflects /\ reflection.promoted
    /\ \E b \in SlotBindings : b.type = "Uniform"
    /\ \A b \in SlotBindings : ~b.dynamic

LiveForRemove(op, r) ==
    CASE op = "remove_buffer" -> r \in buffers
      [] op = "remove_texture" -> r \in textures
      [] op = "remove_sampler" -> r \in samplers
      [] OTHER -> FALSE

\* A step in which the single caller's remove call ends.
RemoveEnds ==
    /\ call[Caller].op \in {"remove_buffer", "remove_texture", "remove_sampler"}
    /\ call'[Caller].op = "idle"
    /\ event'.op = call[Caller].op

\* C26 as stated: a remove call for a handle that is not a live resource of the
\* call's kind returns normally and leaves every collection as it was, the
\* ResourceInfo of live resources of other kinds included.
C26_RemoveOfOtherKindChangesNothing ==
    [][(RemoveEnds /\ ~LiveForRemove(event'.op, event'.h))
         => /\ event'.ret = "unit"
            /\ UNCHANGED <<registry, caches>>]_vars


\* C25 as stated: a create_bind_group call that fails at a missing assignment
\* leaves every collection as it was, and the create_bind_group call made next
\* on the context does not fail because of it.
C25_FailureIsRetryable ==
    [][/\ (BindGroupBuildEnds(Caller) /\ event'.obs = "missing_binding")
            => UNCHANGED <<registry, caches>>
       /\ (/\ event.op = "create_bind_group" /\ event.obs = "missing_binding"
           /\ event'.op = "create_bind_group")
            => event'.obs # "poisoned"]_vars


\* ------------------------------------------------------------------ cache claims
\* C23: a bind group cached for a (descriptor id, set id), a pipeline stored for
\* a handle and a layout stored for a descriptor id are there in every later
\* state, whatever is called next, the removal of the resources the bind group
\* was built from included.
C23_CachesNeverEvict ==
    [][/\ \A k \in BindGroupKeys : HasBindGroup(k[1], k[2]) => Cached(k[1], k[2])' # {}
       /\ \A p \in PipelineHandles :
             HasRenderPipeline(p) => \E x \in render_pipelines' : x[1] = p
       /\ bind_group_layouts \subseteq bind_group_layouts']_vars

\* C23 witness: a bind group, a layout and a pipeline are cached, and no texture,
\* sampler or buffer is live any more.
C23_CachedAfterRemovals ==
    /\ bind_groups # {} /\ render_pipelines # {} /\ bind_group_layouts # {}
    /\ next_resource > 0
    /\ \A r \in Resources : KindOf(r) = "none" /\ r \notin texture_views
    /\ event.op \in {"remove_texture", "remove_sampler", "remove_buffer"}


\* ------------------------------------------------------------------ pipeline postcondition
\* A step of the single caller's create_render_pipeline call; the step that
\* stores the pipeline and returns.
PipelineStep == call[Caller].op = "create_render_pipeline"
PipelineStored ==
    /\ PipelineStep /\ call[Caller].pc = "store"
    /\ call'[Caller].op = "idle" /\ event'.ret = "unit"

\* C22: when create_render_pipeline returns for a handle that had no pipeline,
\* a bind-group layout is stored for every bind group of the descriptor's layout,
\* a shader module for the vertex handle and for the fragment handle if there is
\* one, and one pipeline under the handle; no step of the call rebuilds a layout
\* or a shader module that was stored already.
C22_PipelinePostcondition ==
    [][/\ PipelineStored =>
            LET desc == call[Caller].desc
                groups == desc.layout.bind_groups
            IN  /\ ~HasRenderPipeline(event'.p)
                /\ \A i \in DOMAIN groups : groups[i] \in bind_group_layouts'
                /\ StoredIn(shader_modules', desc.vertex) # {}
                /\ desc.fragment # None => StoredIn(shader_modules', desc.fragment) # {}
                /\ Cardinality({x \in render_pipelines' : x[1] = event'.p}) = 1
       /\ PipelineStep =>
            /\ \A d \in DescriptorIds :
                  HasBindGroupLayout(d) =>
                     bind_group_layouts_created'[d] = bind_group_layouts_created[d]
            /\ \A h \in ShaderHandles :
                  HasShaderModule(h) =>
                     /\ shader_modules_created'[h] = shader_modules_created[h]
                     /\ StoredIn(shader_modules', h) = StoredModule(h)]_vars

\* C22 witness: a pipeline has been stored whose layout has a bind group and
\* whose stages are two shaders, the layout having been built by an earlier
\* create_bind_group_layout call.
C22_StoredWithLayoutAndStages ==
    /\ event.op = "create_render_pipeline" /\ event.obs = "created"
    /\ \E x \in render_pipelines : x[1] = event.p /\ Len(x[2].layout.bind_groups) > 0
    /\ Cardinality({x[1] : x \in shader_modules}) = 2
    /\ \A d \in DescriptorIds : bind_group_layouts_created[d] = 1


\* ------------------------------------------------------------------ ordering claims
\* C24: a create_bind_group call that missed the cache returns the set only if
\* a layout is stored for the descriptor id and the collections map every
\* handle assigned to the descriptor's bindings, all of them assigned; it panics
\* otherwise.  So the descriptor id of every cached bind group has a layout.
C24_LayoutBeforeBindGroup ==
    /\ [](\A g \in bind_groups : HasBindGroupLayout(g[1]))
    /\ [][BindGroupBuildEnds(Caller) =>
            /\ event'.ret \in {"Some", "panic"}
            /\ event'.ret = "Some" =>
                  /\ HasBindGroupLayout(event'.d)
                  /\ event'.complete /\ event'.resolves
                  /\ bind_group_layouts_created[event'.d] > 0]_vars

\* C24 witness: a bind group has been built, for a descriptor whose layout was
\* stored, from live handles, after another handle was removed.
C24_BuiltAfterLayout ==
    /\ event.op = "create_bind_group" /\ event.ret = "Some" /\ event.resolves
    /\ HasBindGroup(event.d, event.s) /\ HasBindGroupLayout(event.d)
    /\ \E q \in 1..next_resource : KindOf(q) = "none" /\ q \notin texture_views


\* ------------------------------------------------------------------ handle claims
\* A step in which a thread's create call returns its handle.
CreateReturns ==
    /\ event'.op \in CreateOps /\ event'.ret = "Some"
    /\ \E t \in Threads : call[t].op = event'.op /\ call'[t].op = "idle"

\* The collections map the handle.
Mapped(r) ==
    \/ r \in buffers \cup textures \cup texture_views \cup samplers \cup swap_chain_outputs
    \/ resource_info[r] # "none"

\* C21: the handle a create call returns was returned by no earlier create call
\* of any kind, removed since or not, and no collection mapped it before the
\* call's inserts.
C21_FreshHandles ==
    [][CreateReturns =>
          /\ event'.h \notin handles_returned
          /\ ~Mapped(event'.h)]_vars

\* C21 witness: a create call has returned a handle, which the collections now
\* map, after another handle was returned and removed again.
C21_ReturnedAfterRemoval ==
    /\ event.op \in CreateOps /\ event.ret = "Some"
    /\ \E q \in handles_returned : q # event.h /\ ~Mapped(q)
    /\ Mapped(event.h)


\* ------------------------------------------------------------------ buffer info claims
\* A step in which the single caller's call of the operation returns.
Ends(op) ==
    /\ call[Caller].op = op /\ call'[Caller].op = "idle"
    /\ event'.op = op /\ event'.ret # "panic"

\* C27: create_buffer_with_data records the info passed with its size replaced
\* by the length of the data and its usage as passed; create_buffer and
\* create_buffer_mapped record the info passed; the recorded info of a buffer
\* stays as it is while the buffer lives, and get_resource_info hands it to the
\* callback.
C27_RecordedBufferSize ==
    [][/\ Ends("create_buffer_with_data") =>
            buffer_infos'[event'.h] =
               [size |-> event'.data, buffer_usage |-> event'.info.buffer_usage]
       /\ (Ends("create_buffer") \/ Ends("create_buffer_mapped")) =>
            buffer_infos'[event'.h] = event'.info
       /\ Ends("get_resource_info") =>
            /\ event'.obs = resource_info[event'.h]
            /\ event'.info = buffer_infos[event'.h]
       /\ \A r \in buffers \cap buffers' : buffer_infos'[r] = buffer_infos[r]]_vars

\* C27 witness: create_buffer_with_data has returned for an info whose size was
\* not the length of the data, and the info recorded for the live buffer has the
\* length of the data and the usage passed.
C27_ResizedFromData ==
    /\ event.op = "create_buffer_with_data" /\ event.ret = "Some"
    /\ event.info.size # event.data
    /\ event.h \in buffers
    /\ buffer_infos[event.h].size = event.data
    /\ buffer_infos[event.h].buffer_usage = event.info.buffer_usage

=============================================================================
